---- MODULE Spec2Model ----
(***************************************************************************)
(* Model of the text-to-speech backend: backend/main.py (the               *)
(* /api/generate endpoint and process_audio_file) and backend/utils.py     *)
(* (the audio-prompt helpers).                                             *)
(*                                                                         *)
(* Representation.                                                         *)
(*  - A float request parameter is an integer number of hundredths         *)
(*    (temperature 1.2 is 120).                                            *)
(*  - A float sample is a rational [n |-> num, d |-> den] with d > 0; the  *)
(*    arithmetic on samples is exact (IEEE rounding is not modelled).      *)
(*  - A message (an exception text, an HTTP detail) is a sequence of text  *)
(*    fragments; "x in str(e)" is membership of the fragment x.            *)
(*  - A numpy array is [dtype |-> ..., data |-> sequence of samples]; only *)
(*    1-D (mono) arrays are drawn, for which the mono step is the identity.*)
(***************************************************************************)
EXTENDS Integers, Sequences, FiniteSets, TLC

VARIABLES clock, req, files, tmp, emb, ptmp, narr

vars == <<clock, req, files, tmp, emb, ptmp, narr>>

(***************************************************************************)
(* Bounds of the model.                                                    *)
(***************************************************************************)
NumReq == 2
MaxSkew == 2
SampleUnit == 4
MaxAmp == 6
MaxOutLen == 5
MaxClipLen == 2

(***************************************************************************)
(* Program constants.                                                      *)
(***************************************************************************)
Scale == 10 * 10
MaxNewTokensLo == 860
MaxNewTokensHi == 3072
TemperatureLo == 100
TemperatureHi == 150
TopPLo == 80
TopPHi == 100
CfgScaleLo == 100
CfgScaleHi == 500
TopKLo == 15
TopKHi == 50
SpeedLo == 80
SpeedHi == 100
SpeedClampLo == 10
SpeedClampHi == 500
Int16Scale == 32767
OutputSr == 44100
PromptLen == 16000
BlockLen == 81
MaxSamples == 30 * 44100
Retention == 3600
DefaultMaxNewTokens == 1024
DefaultCfgScale == 300
DefaultTemperature == 130
DefaultTopP == 95
DefaultTopK == 35
DefaultSpeed == 94

Reqs == 1..NumReq

(***************************************************************************)
(* Samples: exact rationals.                                               *)
(***************************************************************************)
Rat(a, b) == [n |-> a, d |-> b]
F(k) == Rat(k, SampleUnit)
Zero == Rat(0, 1)
RatLe(x, y) == x.n * y.d <= y.n * x.d
RatEq(x, y) == x.n * y.d = y.n * x.d
RatIsZero(x) == x.n = 0

TruncDiv(a, b) == IF a >= 0 THEN a \div b ELSE -((-a) \div b)

SeqMaxIdx(s) == CHOOSE i \in 1..Len(s) : \A j \in 1..Len(s) : RatLe(s[j], s[i])
SeqMax(s) == s[SeqMaxIdx(s)]

Contains(msg, frag) == \E i \in 1..Len(msg) : msg[i] = frag

(***************************************************************************)
(* Messages of main.py.                                                    *)
(***************************************************************************)
UnsupportedMsg == <<"Audio format not supported. Please use WAV, MP3, or FLAC format.">>
BothFailedMsg == <<"Failed to process audio. Please ensure the file is a valid audio file.">>
EmptyAudioMsg == <<"Audio file appears to be empty">>
Signature == "Format not recognized"
NoOutputMsg == <<"Model generated no output">>

\* An exception: an HTTPException (status, detail) or any other (msg).
Http(s, dt) == [http |-> TRUE, status |-> s, detail |-> dt]
Other(m) == [http |-> FALSE, status |-> 0, detail |-> m]
\* str(e): "<status>: <detail>" for an HTTPException, the message otherwise.
StatusText(s) == IF s = 400 THEN "400: " ELSE "500: "
Str(e) == IF e.http THEN <<StatusText(e.status)>> \o e.detail ELSE e.detail

(***************************************************************************)
(* generate_speech: the request and its validation (main.py 137-166).      *)
(***************************************************************************)
Whitespace == {" ", "\t", "\n"}
\* text.isspace(): at least one character and all of them whitespace.
IsSpace(t) == Len(t) > 0 /\ \A i \in 1..Len(t) : t[i] \in Whitespace

DefaultInput ==
  [text |-> <<"H", "i">>, audio |-> FALSE,
   max_new_tokens |-> DefaultMaxNewTokens, cfg_scale |-> DefaultCfgScale,
   temperature |-> DefaultTemperature, top_p |-> DefaultTopP,
   cfg_filter_top_k |-> DefaultTopK, speed_factor |-> DefaultSpeed]

LowEdgeInput ==
  [DefaultInput EXCEPT !.max_new_tokens = MaxNewTokensLo, !.cfg_scale = CfgScaleLo,
     !.temperature = TemperatureLo, !.top_p = TopPLo,
     !.cfg_filter_top_k = TopKLo, !.speed_factor = SpeedLo]

HighEdgeInput ==
  [DefaultInput EXCEPT !.max_new_tokens = MaxNewTokensHi, !.cfg_scale = CfgScaleHi,
     !.temperature = TemperatureHi, !.top_p = TopPHi,
     !.cfg_filter_top_k = TopKHi, !.speed_factor = SpeedHi]

\* The requests drawn: the defaults, every parameter on both edges of its
\* range, and the defaults with one field changed (just outside either edge,
\* empty and blank texts, the spec's examples 0.9 / 1.2 / 0.5 / 2.0).
OneOff ==
     {[DefaultInput EXCEPT !.text = t] :
         t \in {<<>>, <<" ">>, <<" ", "\t">>, <<" ", "a">>}}
  \cup {[DefaultInput EXCEPT !.max_new_tokens = v] :
         v \in {MaxNewTokensLo - 1, MaxNewTokensHi + 1}}
  \cup {[DefaultInput EXCEPT !.temperature = v] :
         v \in {TemperatureLo - 1, TemperatureHi + 1, 90, 120}}
  \cup {[DefaultInput EXCEPT !.top_p = v] : v \in {TopPLo - 1, TopPHi + 1}}
  \cup {[DefaultInput EXCEPT !.cfg_scale = v] : v \in {CfgScaleLo - 1, CfgScaleHi + 1}}
  \cup {[DefaultInput EXCEPT !.cfg_filter_top_k = v] : v \in {TopKLo - 1, TopKHi + 1}}
  \cup {[DefaultInput EXCEPT !.speed_factor = v] :
         v \in {SpeedLo - 1, SpeedHi + 1, 50, 200}}

RequestInputs ==
  LET base == {DefaultInput, LowEdgeInput, HighEdgeInput} \cup OneOff
  IN  base \cup {[i EXCEPT !.audio = TRUE] : i \in base}

Valid == <<>>

\* Validate without its last check (the speed_factor range).
ValidateNoSpeedCheck(in) ==
  IF Len(in.text) = 0 \/ IsSpace(in.text)
    THEN <<"Text input cannot be empty">>
  ELSE IF ~(MaxNewTokensLo <= in.max_new_tokens /\ in.max_new_tokens <= MaxNewTokensHi)
    THEN <<"max_new_tokens must be between 860 and 3072">>
  ELSE IF ~(TemperatureLo <= in.temperature /\ in.temperature <= TemperatureHi)
    THEN <<"temperature must be between 1.0 and 1.5">>
  ELSE IF ~(TopPLo <= in.top_p /\ in.top_p <= TopPHi)
    THEN <<"top_p must be between 0.8 and 1.0">>
  ELSE IF ~(CfgScaleLo <= in.cfg_scale /\ in.cfg_scale <= CfgScaleHi)
    THEN <<"cfg_scale must be between 1.0 and 5.0">>
  ELSE IF ~(TopKLo <= in.cfg_filter_top_k /\ in.cfg_filter_top_k <= TopKHi)
    THEN <<"cfg_filter_top_k must be between 15 and 50">>
  ELSE Valid

\* The detail of the HTTP 400 the validation raises, or Valid.
Validate(in) ==
  IF Len(in.text) = 0 \/ IsSpace(in.text)
    THEN <<"Text input cannot be empty">>
  ELSE IF ~(MaxNewTokensLo <= in.max_new_tokens /\ in.max_new_tokens <= MaxNewTokensHi)
    THEN <<"max_new_tokens must be between 860 and 3072">>
  ELSE IF ~(TemperatureLo <= in.temperature /\ in.temperature <= TemperatureHi)
    THEN <<"temperature must be between 1.0 and 1.5">>
  ELSE IF ~(TopPLo <= in.top_p /\ in.top_p <= TopPHi)
    THEN <<"top_p must be between 0.8 and 1.0">>
  ELSE IF ~(CfgScaleLo <= in.cfg_scale /\ in.cfg_scale <= CfgScaleHi)
    THEN <<"cfg_scale must be between 1.0 and 5.0">>
  ELSE IF ~(TopKLo <= in.cfg_filter_top_k /\ in.cfg_filter_top_k <= TopKHi)
    THEN <<"cfg_filter_top_k must be between 15 and 50">>
  ELSE IF ~(SpeedLo <= in.speed_factor /\ in.speed_factor <= SpeedHi)
    THEN <<"speed_factor must be between 0.8 and 1.0">>
  ELSE Valid

(***************************************************************************)
(* Dtype normalization (utils.py 20-31, main.py 92-99).                    *)
(***************************************************************************)
IsInteger(dtype) == dtype \in {"int8", "int16"}
IsFloating(dtype) == dtype \in {"float32", "float64"}
\* np.iinfo(dtype).max
IInfoMax(dtype) == IF dtype = "int8" THEN 127 ELSE 32767
\* np.iinfo(dtype).min
IInfoMin(dtype) == IF dtype = "int8" THEN -128 ELSE -32768

Arr(dt, s) == [dtype |-> dt, data |-> s]

normalize_audio_dtype(a) ==
  IF IsInteger(a.dtype)
    THEN Arr("float32",
             [i \in 1..Len(a.data) |->
                Rat(a.data[i].n, a.data[i].d * IInfoMax(a.dtype))])
  ELSE IF ~IsFloating(a.dtype) THEN Arr("float32", a.data)
  ELSE a

(***************************************************************************)
(* process_audio_file (main.py 66-134).  An upload is what the             *)
(* environment does with it: whether reading it fails, what soundfile      *)
(* makes of it and, after soundfile failed, what librosa makes of it.      *)
(***************************************************************************)
DecoderMsgs == {<<"Error opening file: ", Signature>>, <<"Decoder error: bad header">>}

\* The decoded clips: float64 mono arrays of at most MaxClipLen samples
\* over {-0.5, 0}.
ClipVals == {F(-2), F(0)}
Clips ==
  {Arr("float64", s) :
     s \in UNION {[1..n -> ClipVals] : n \in 0..MaxClipLen}}

Decoded(a) == [kind |-> "ok", arr |-> a, msg |-> <<>>]
DecodeFails(m) == [kind |-> "error", arr |-> Arr("float64", <<>>), msg |-> m]
ImportFails == [kind |-> "import_error", arr |-> Arr("float64", <<>>), msg |-> <<>>]
NotTried == [kind |-> "not_tried", arr |-> Arr("float64", <<>>), msg |-> <<>>]

Uploads ==
     {[read |-> <<>>, sf |-> Decoded(c), librosa |-> NotTried] : c \in Clips}
  \cup {[read |-> <<>>, sf |-> DecodeFails(m), librosa |-> l] :
         m \in DecoderMsgs,
         l \in {ImportFails, Decoded(Arr("float32", <<F(2), F(-2)>>))}
               \cup {DecodeFails(m2) : m2 \in DecoderMsgs}}
  \cup {[read |-> <<"read failed">>, sf |-> NotTried, librosa |-> NotTried]}

NoUpload == [read |-> <<>>, sf |-> NotTried, librosa |-> NotTried]

Returned(a) == [ok |-> TRUE, arr |-> a, exc |-> Http(0, <<>>)]
Raised(e) == [ok |-> FALSE, arr |-> Arr("float64", <<>>), exc |-> e]

\* Lines 73-90: the read and the two decoders.
Decode(u) ==
  IF u.read # <<>> THEN Raised(Other(u.read))
  ELSE IF u.sf.kind = "ok" THEN Returned(u.sf.arr)
  ELSE IF u.librosa.kind = "ok" THEN Returned(u.librosa.arr)
  ELSE IF u.librosa.kind = "import_error" THEN Raised(Http(400, UnsupportedMsg))
  ELSE Raised(Http(400, BothFailedMsg))

\* Lines 92-122: normalization, the empty check and the length cap.
Preprocess(a) ==
  LET n == normalize_audio_dtype(a)
  IN  IF Len(n.data) = 0 THEN Raised(Http(400, EmptyAudioMsg))
      ELSE IF Len(n.data) > MaxSamples
        THEN Returned(Arr(n.dtype, SubSeq(n.data, 1, MaxSamples)))
      ELSE Returned(n)

\* Lines 124-128: every exception of the body, the HTTPExceptions raised
\* in it included, is mapped by its text.
MapException(e) ==
  IF Contains(Str(e), Signature) THEN Http(400, UnsupportedMsg)
  ELSE Http(400, <<"Failed to process audio: ">> \o Str(e))

process_audio_file(u) ==
  LET d == Decode(u)
      p == IF d.ok THEN Preprocess(d.arr) ELSE d
  IN  IF p.ok THEN p ELSE Raised(MapException(p.exc))

(***************************************************************************)
(* generate_speech: the conditioning block (main.py 178-191).  The clip is *)
(* cut or zero-padded to PromptLen samples and BlockLen evenly spaced      *)
(* samples of it are taken: linspace(0, PromptLen-1, BlockLen).long().     *)
(* The (9, 9) block is kept as its BlockLen samples in row order.          *)
(***************************************************************************)
NoPrompt == <<>>

ConditionPrompt(a) ==
  [i \in 1..BlockLen |->
     LET idx == ((i - 1) * (PromptLen - 1)) \div (BlockLen - 1)
     IN  IF idx < Len(a.data) THEN a.data[idx + 1] ELSE Zero]

(***************************************************************************)
(* model.generate (main.py 196-205): the call and what the model may do.   *)
(***************************************************************************)
NoCall == <<>>

Call(in, prompt) ==
  <<[text |-> in.text, max_tokens |-> in.max_new_tokens, cfg_scale |-> in.cfg_scale,
     temperature |-> in.temperature, top_p |-> in.top_p,
     cfg_filter_top_k |-> in.cfg_filter_top_k, audio_prompt |-> prompt]>>

\* n consecutive sample values starting at a / SampleUnit.
Window(n, a) == [i \in 1..n |-> F(a + i - 1)]

\* The waveforms the model returns: of every length up to MaxOutLen, from
\* the bottom of the sample grid, around zero and up to its top, so that
\* every value k / SampleUnit with |k| <= MaxAmp occurs.
ModelOutputs ==
  {Window(n, a) : n \in 0..MaxOutLen, a \in {-MaxAmp, -1, MaxAmp - MaxOutLen + 1}}
  \cup {Window(1, a) : a \in {-SampleUnit, 0, SampleUnit}}

GenNone == [kind |-> "none", wave |-> <<>>, msg |-> <<>>]
GenRaise(m) == [kind |-> "raise", wave |-> <<>>, msg |-> m]
GenArray(w) == [kind |-> "array", wave |-> w, msg |-> <<>>]
NotCalled == [kind |-> "not_called", wave |-> <<>>, msg |-> <<>>]

GenOutcomes ==
  {GenNone, GenRaise(<<"CUDA out of memory">>)} \cup {GenArray(w) : w \in ModelOutputs}

(***************************************************************************)
(* generate_speech: speed adjustment and quantization (main.py 214-227).   *)
(***************************************************************************)
\* max(0.1, min(speed_factor, 5.0))
ClampSpeed(s) ==
  LET m == IF s < SpeedClampHi THEN s ELSE SpeedClampHi
  IN  IF m > SpeedClampLo THEN m ELSE SpeedClampLo

\* int(original_len * speed_factor): the factor multiplied, not divided.
TargetLenMultiplied(n, s) == (n * ClampSpeed(s)) \div Scale

\* int(original_len / speed_factor), the factor clamped first.  The
\* quotient is taken exactly, over the decimal value of the factor; for the
\* lengths and factors drawn it is the integer the double division gives.
TargetLen(n, s) == (n * Scale) \div ClampSpeed(s)

\* np.interp(np.linspace(0, n - 1, t), np.arange(n), w)
Interp(w, t) ==
  LET n == Len(w)
  IN  [j \in 1..t |->
         IF t = 1 THEN w[1]
         ELSE LET pos == (j - 1) * (n - 1)
                  i == pos \div (t - 1)
                  r == pos % (t - 1)
              IN  IF r = 0 THEN w[i + 1]
                  ELSE LET a == w[i + 1]
                           b == w[i + 2]
                       IN  Rat(a.n * b.d * (t - 1) + r * (b.n * a.d - a.n * b.d),
                               a.d * b.d * (t - 1))]

SpeedAdjust(w, s) ==
  LET t == TargetLen(Len(w), s)
  IN  IF t # Len(w) /\ t > 0 THEN Interp(w, t) ELSE w

\* np.clip(x, -1.0, 1.0)
Clip(x) == IF x.n > x.d THEN Rat(1, 1) ELSE IF x.n < -x.d THEN Rat(-1, 1) ELSE x

\* Quantization with the clip left out; the cast to int16 wraps.
WrapInt16(k) == ((k + 32768) % 65536) - 32768
QuantizeNoClip(x) == WrapInt16(TruncDiv(x.n * Int16Scale, x.d))

\* (np.clip(x, -1.0, 1.0) * 32767).astype(np.int16): the cast truncates
\* toward zero.
Quantize(x) == LET c == Clip(x) IN TruncDiv(c.n * Int16Scale, c.d)

PostProcess(w, s) ==
  LET a == SpeedAdjust(w, s) IN [i \in 1..Len(a) |-> Quantize(a[i])]

(***************************************************************************)
(* The output directory (AUDIO_DIR).  A path "<t>.wav" is its number t.    *)
(* writers is history: the requests that have written the path.            *)
(***************************************************************************)
\* AUDIO_DIR / f"{int(time.time())}.wav" (main.py 168)
OutputPath(now) == now

\* sf.write(str(output_filepath), output_audio_np, output_sr) (main.py 230)
WriteFile(fs, p, samples, now, r) ==
  [q \in DOMAIN fs \cup {p} |->
     IF q = p
       THEN [samples |-> samples, sr |-> OutputSr, mtime |-> now,
             writers |-> (IF p \in DOMAIN fs THEN fs[p].writers ELSE {}) \cup {r}]
       ELSE fs[q]]

\* The sweep of the finally clause (main.py 245-255); nothing in the
\* program writes to UPLOADS_DIR, whose sweep finds no file.
Sweep(fs, own, now) ==
  [q \in {p \in DOMAIN fs : ~(p # own /\ fs[p].mtime < now - Retention)} |-> fs[q]]

(***************************************************************************)
(* The requests to /api/generate.  The handler runs without suspension     *)
(* except at "await file.read()" in process_audio_file, where a request    *)
(* with an upload waits (pc = "reading") holding its temporary file.       *)
(***************************************************************************)
\* The clock values explored: up to MaxSkew seconds past the start and past
\* one retention period.
ClockInBounds(now) == now <= Retention + MaxSkew /\ now % Retention <= MaxSkew

NoOutput == [wrote |-> FALSE, samples |-> <<>>]
Wrote(s) == [wrote |-> TRUE, samples |-> s]

IdleReq ==
  [pc |-> "idle", in |-> DefaultInput, path |-> 0, status |-> 0, detail |-> <<>>,
   upload |-> NoUpload, call |-> NoCall, gen |-> NotCalled, out |-> NoOutput]

\* Lines 193-243 for one outcome g of model.generate: the response and the
\* samples written.
Respond(in, g) ==
  IF g.kind = "none" THEN [status |-> 500, detail |-> NoOutputMsg, out |-> NoOutput]
  ELSE IF g.kind = "raise" THEN [status |-> 500, detail |-> g.msg, out |-> NoOutput]
  ELSE [status |-> 200, detail |-> <<>>,
        out |-> Wrote(PostProcess(g.wave, in.speed_factor))]

\* Lines 193-255: the call of the model, which takes a second, the
\* response and the sweep.
Generate(r, in, path, u, prompt, g) ==
  LET res == Respond(in, g)
      now == clock + 1
      written == IF res.out.wrote
                   THEN WriteFile(files, path, res.out.samples, now, r)
                   ELSE files
  IN  /\ ClockInBounds(now)
      /\ clock' = now
      /\ req' = [req EXCEPT ![r] =
                   [pc |-> "done", in |-> in, path |-> path, status |-> res.status,
                    detail |-> res.detail, upload |-> u, call |-> Call(in, prompt),
                    gen |-> g, out |-> res.out]]
      /\ files' = Sweep(written, path, now)

\* A request arrives: lines 151-169, then the whole handler for a request
\* without an upload, or lines 173-175 and 68-73 for one with an upload.
Submit(r, inputs, gens) ==
  /\ req[r].pc = "idle"
  /\ \E in \in inputs :
       IF Validate(in) # Valid
         THEN /\ req' = [req EXCEPT ![r] =
                           [IdleReq EXCEPT !.pc = "done", !.in = in, !.status = 400,
                                           !.detail = Validate(in)]]
              /\ UNCHANGED <<clock, files, tmp>>
       ELSE IF in.audio
         THEN /\ req' = [req EXCEPT ![r] =
                           [IdleReq EXCEPT !.pc = "reading", !.in = in,
                                           !.path = OutputPath(clock)]]
              /\ tmp' = tmp \cup {r}
              /\ UNCHANGED <<clock, files>>
       ELSE /\ \E g \in gens :
                 Generate(r, in, OutputPath(clock), NoUpload, NoPrompt, g)
            /\ UNCHANGED tmp
  /\ UNCHANGED <<emb, ptmp, narr>>

\* The upload has been read: lines 74-134 (the temporary file is unlinked
\* on every exit; the unlink of the still open file succeeds, as on POSIX),
\* then lines 176-255.
Resume(r, uploads, gens) ==
  /\ req[r].pc = "reading"
  /\ tmp' = tmp \ {r}
  /\ \E u \in uploads :
       LET p == process_audio_file(u)
       IN  IF p.ok
             THEN \E g \in gens :
                    Generate(r, req[r].in, req[r].path, u, ConditionPrompt(p.arr), g)
             ELSE /\ req' = [req EXCEPT ![r] =
                               [@ EXCEPT !.pc = "done", !.status = p.exc.status,
                                         !.detail = p.exc.detail, !.upload = u]]
                  /\ files' = Sweep(files, req[r].path, clock)
                  /\ UNCHANGED clock
  /\ UNCHANGED <<emb, ptmp, narr>>

\* Time passes: a second, or the retention period.
Tick ==
  /\ \E d \in {1, Retention} :
       /\ ClockInBounds(clock + d)
       /\ clock' = clock + d
  /\ UNCHANGED <<req, files, tmp, emb, ptmp, narr>>

Init ==
  /\ clock = 0
  /\ req = [r \in Reqs |-> IdleReq]
  /\ files = <<>>
  /\ tmp = {}
  /\ emb = 0
  /\ ptmp = {}
  /\ narr = 0

\* One client: every request, upload and model outcome of the input sets.
Next ==
  \/ Submit(1, RequestInputs, GenOutcomes)
  \/ Resume(1, Uploads, GenOutcomes)
  \/ Tick

Spec == Init /\ [][Next]_vars

\* NumReq clients at once.  The requests meet only in the clock and in the
\* output directory, so a few inputs of each kind are drawn.
FewInputs ==
  {DefaultInput, [DefaultInput EXCEPT !.audio = TRUE],
   [DefaultInput EXCEPT !.text = <<>>]}
FewUploads ==
  {[read |-> <<>>, sf |-> Decoded(Arr("float64", <<F(-2)>>)), librosa |-> NotTried],
   [read |-> <<"read failed">>, sf |-> NotTried, librosa |-> NotTried]}
FewGens == {GenNone, GenArray(<<F(1)>>), GenArray(<<F(SampleUnit)>>)}

NextConcurrent ==
  \/ \E r \in Reqs : Submit(r, FewInputs, FewGens)
  \/ \E r \in Reqs : Resume(r, FewUploads, FewGens)
  \/ Tick

SpecConcurrent == Init /\ [][NextConcurrent]_vars

(***************************************************************************)
(* utils.py: the embedded audio prompt.  process_audio_prompt is called by *)
(* a request handler that is not part of the sources; PromptFinish is that *)
(* caller as the specification describes it.                               *)
(***************************************************************************)
\* audio_data is None or audio_data.size == 0 or audio_data.max() == 0
is_audio_empty_or_silent(a) ==
  Len(a.data) = 0 \/ RatIsZero(SeqMax(a.data))

\* audio_data.ndim > 1 is false for the 1-D arrays drawn.
convert_to_mono(a) == a

PromptNone == [kind |-> "none", path |-> 0, exc |-> Http(0, <<>>)]
PromptPath(p) == [kind |-> "path", path |-> p, exc |-> Http(0, <<>>)]
PromptRaised(p, e) == [kind |-> "raise", path |-> p, exc |-> e]

\* The name NamedTemporaryFile picks: one no existing file has.
FreshPath(existing) == CHOOSE p \in 1..(Cardinality(existing) + 1) : p \notin existing

\* save_audio_to_temp_file (utils.py 46-57): the file is created, then
\* written; wfail is the text of the failure of sf.write, <<>> for none.
save_audio_to_temp_file(a, sample_rate, wfail, existing) ==
  LET temp_path == FreshPath(existing)
  IN  IF wfail = <<>> THEN PromptPath(temp_path)
      ELSE PromptRaised(temp_path,
                        Http(400, <<"Failed to save audio prompt: ">> \o wfail))

\* process_audio_prompt (utils.py 59-77)
process_audio_prompt(audio_data, sample_rate, wfail, existing) ==
  LET a == Arr("float32", audio_data)
  IN  IF is_audio_empty_or_silent(a) THEN PromptNone
      ELSE save_audio_to_temp_file(convert_to_mono(normalize_audio_dtype(a)),
                                   sample_rate, wfail, existing)

PromptVals == {F(-2), F(-1), F(0), F(2)}
PromptClips == UNION {[1..n -> PromptVals] : n \in 0..MaxClipLen}
SampleRates == {16000, 44100}
WriteFailures == {<<>>, <<"Error opening file: System error.">>}

IdleEmb ==
  [pc |-> "idle", audio_data |-> <<>>, sample_rate |-> 0, result |-> PromptNone,
   created |-> {}, status |-> 0]

InitPrompt ==
  /\ clock = 0
  /\ req = [r \in Reqs |-> IdleReq]
  /\ files = <<>>
  /\ tmp = {}
  /\ emb = IdleEmb
  /\ ptmp = {}
  /\ narr = 0

\* A request with an embedded clip reaches process_audio_prompt.
PromptCall ==
  /\ emb.pc = "idle"
  /\ \E d \in PromptClips, sr \in SampleRates, wfail \in WriteFailures :
       LET res == process_audio_prompt(d, sr, wfail, ptmp)
           made == IF res.kind = "none" THEN {} ELSE {res.path}
       IN  /\ ptmp' = ptmp \cup made
           /\ emb' = [pc |-> IF res.kind = "raise" THEN "done" ELSE "prompted",
                      audio_data |-> d, sample_rate |-> sr, result |-> res,
                      created |-> made,
                      status |-> IF res.kind = "raise" THEN res.exc.status ELSE 0]
  /\ UNCHANGED <<clock, req, files, tmp, narr>>

\* The caller invokes the model with the path it was given and deletes the
\* file of that path afterwards, whether the model succeeded or failed.
PromptFinish ==
  /\ emb.pc = "prompted"
  /\ \E st \in {200, 500} :
       emb' = [emb EXCEPT !.pc = "done", !.status = st]
  /\ ptmp' = IF emb.result.kind = "path" THEN ptmp \ {emb.result.path} ELSE ptmp
  /\ UNCHANGED <<clock, req, files, tmp, narr>>

NextPrompt == PromptCall \/ PromptFinish

SpecPrompt == InitPrompt /\ [][NextPrompt]_vars

(***************************************************************************)
(* normalize_audio_dtype as a function: the arrays it is applied to.       *)
(***************************************************************************)
IntDtypes == {"int8", "int16"}
PcmVals(dt) == {IInfoMin(dt), IInfoMin(dt) + 1, -1, 0, 1, IInfoMax(dt)}
PcmArrays ==
  UNION {{Arr(dt, [i \in 1..n |-> Rat(s[i], 1)]) :
            s \in [1..n -> PcmVals(dt)]} : dt \in IntDtypes, n \in 0..MaxClipLen}
NormInputs ==
  PcmArrays \cup Clips
  \cup {Arr("bool", <<Rat(0, 1), Rat(1, 1)>>), Arr("float32", <<F(SampleUnit)>>)}

InitNorm ==
  /\ clock = 0
  /\ req = [r \in Reqs |-> IdleReq]
  /\ files = <<>>
  /\ tmp = {}
  /\ emb = 0
  /\ ptmp = {}
  /\ narr \in {[pc |-> "input", in |-> a, out |-> a] : a \in NormInputs}

Normalize ==
  /\ narr.pc = "input"
  /\ narr' = [narr EXCEPT !.pc = "done", !.out = normalize_audio_dtype(narr.in)]
  /\ UNCHANGED <<clock, req, files, tmp, emb, ptmp>>

NextNorm == Normalize

SpecNorm == InitNorm /\ [][NextNorm]_vars

(***************************************************************************)
(* The claims.                                                             *)
(***************************************************************************)
Started(r) == req[r].pc # "idle"
Done(r) == req[r].pc = "done"

\* The ranges as the claim states them, in hundredths for the float ones.
InRanges(in) ==
  /\ Len(in.text) > 0
  /\ \E i \in 1..Len(in.text) : in.text[i] \notin {" ", "\t", "\n"}
  /\ in.max_new_tokens \in 860..3072
  /\ in.temperature \in 100..150
  /\ in.top_p \in 80..100
  /\ in.cfg_scale \in 100..500
  /\ in.cfg_filter_top_k \in 15..50
  /\ in.speed_factor \in 80..100

ValidationDetails ==
  {<<"Text input cannot be empty">>,
   <<"max_new_tokens must be between 860 and 3072">>,
   <<"temperature must be between 1.0 and 1.5">>,
   <<"top_p must be between 0.8 and 1.0">>,
   <<"cfg_scale must be between 1.0 and 5.0">>,
   <<"cfg_filter_top_k must be between 15 and 50">>,
   <<"speed_factor must be between 0.8 and 1.0">>}

WrittenBy(r) == {p \in DOMAIN files : r \in files[p].writers}

\* C1: a request with a blank text or a parameter outside its closed range
\* ends with HTTP 400, model.generate is never called for it and it writes
\* no output file (nor creates a temporary one); a request with every value
\* in range is not rejected by the validation: it waits for its upload, or
\* has failed in process_audio_file, or has called the model with exactly
\* the values it was given.
C1_ValidatedBeforeModel ==
  \A r \in Reqs :
    Started(r) =>
      IF InRanges(req[r].in)
        THEN /\ req[r].detail \notin ValidationDetails
             /\ Done(r) =>
                  \/ /\ req[r].call # NoCall
                     /\ req[r].call[1].text = req[r].in.text
                     /\ req[r].call[1].max_tokens = req[r].in.max_new_tokens
                     /\ req[r].call[1].temperature = req[r].in.temperature
                     /\ req[r].call[1].top_p = req[r].in.top_p
                     /\ req[r].call[1].cfg_scale = req[r].in.cfg_scale
                     /\ req[r].call[1].cfg_filter_top_k = req[r].in.cfg_filter_top_k
                  \/ /\ req[r].in.audio
                     /\ req[r].status = 400
        ELSE /\ Done(r)
             /\ req[r].status = 400
             /\ req[r].detail \in ValidationDetails
             /\ req[r].call = NoCall
             /\ req[r].gen = NotCalled
             /\ ~req[r].out.wrote
             /\ WrittenBy(r) = {}
             /\ r \notin tmp

\* C1's case: a request with temperature 0.9 has been rejected, and (in
\* another run) one with temperature 1.2 has reached the model.
C1_Witness ==
  \E r \in Reqs :
    /\ Done(r)
    /\ req[r].in.temperature = 90
    /\ req[r].status = 400

C1_WitnessAccepted ==
  \E r \in Reqs :
    /\ Done(r)
    /\ req[r].in.temperature = 120
    /\ req[r].call # NoCall

\* The length the claim states: floor(n / s) for s clamped into [0.1, 5.0]
\* when that is positive and differs from n, and n otherwise.
ClaimedLen(n, s) ==
  LET c == IF s < 10 THEN 10 ELSE IF s > 500 THEN 500 ELSE s
      fl == CHOOSE k \in 0..(10 * n) : k * c <= n * 100 /\ n * 100 < (k + 1) * c
  IN  IF fl > 0 /\ fl # n THEN fl ELSE n

ClaimedQuant(x, q) ==
  IF x.n >= x.d THEN q = 32767
  ELSE IF x.n <= -x.d THEN q = -32767
  ELSE IF x.n >= 0 THEN q >= 0 /\ q * x.d <= x.n * 32767 /\ x.n * 32767 < (q + 1) * x.d
  ELSE q <= 0 /\ (q - 1) * x.d < x.n * 32767 /\ x.n * 32767 <= q * x.d

\* C8: every written sample lies in [-32767, 32767]; where the output was
\* not resampled, each is its input sample clipped, scaled by 32767 and
\* truncated toward zero, so that 0 gives 0, 1.0 and more give 32767, -1.0
\* and less give -32767.
C8_QuantizedRange ==
  \A r \in Reqs :
    req[r].out.wrote =>
      /\ \A i \in 1..Len(req[r].out.samples) :
           req[r].out.samples[i] \in -32767..32767
      /\ Len(req[r].out.samples) = Len(req[r].gen.wave) =>
           \A i \in 1..Len(req[r].gen.wave) :
             /\ ClaimedQuant(req[r].gen.wave[i], req[r].out.samples[i])
             /\ RatIsZero(req[r].gen.wave[i]) => req[r].out.samples[i] = 0
             /\ RatEq(req[r].gen.wave[i], Rat(1, 1)) => req[r].out.samples[i] = 32767
             /\ RatEq(req[r].gen.wave[i], Rat(-1, 1)) => req[r].out.samples[i] = -32767

\* C8's case: a written output holds samples whose inputs were above 1.0,
\* exactly 1.0 and fractional.
C8_Witness ==
  \E r \in Reqs :
    /\ req[r].out.wrote
    /\ Len(req[r].out.samples) = Len(req[r].gen.wave)
    /\ \E i, j, k \in 1..Len(req[r].gen.wave) :
         /\ req[r].gen.wave[i].n > req[r].gen.wave[i].d
         /\ RatEq(req[r].gen.wave[j], Rat(1, 1))
         /\ req[r].gen.wave[k].n % req[r].gen.wave[k].d # 0

\* The clip an upload ingests to: what the decoder that succeeded returns.
UploadDecoded(u) == u.read = <<>> /\ (u.sf.kind = "ok" \/ u.librosa.kind = "ok")
IngestedClip(u) == IF u.sf.kind = "ok" THEN u.sf.arr.data ELSE u.librosa.arr.data
AllZero(w) == \A i \in 1..Len(w) : RatIsZero(w[i])

\* C3: a request whose uploaded clip ingests to zero samples or to all-zero
\* samples is not rejected because of the clip and calls model.generate
\* with audio_prompt None.
C3_SilentUploadUnconditioned ==
  \A r \in Reqs :
    (Done(r) /\ req[r].in.audio /\ UploadDecoded(req[r].upload)
       /\ AllZero(IngestedClip(req[r].upload))) =>
      /\ req[r].status # 400
      /\ req[r].call # NoCall
      /\ req[r].call[1].audio_prompt = NoPrompt

\* C3 for the all-zero clip alone: the model is never given an all-zero
\* conditioning block.
C3_NoZeroBlock ==
  \A r \in Reqs :
    req[r].call # NoCall =>
      (req[r].call[1].audio_prompt = NoPrompt
         \/ ~AllZero(req[r].call[1].audio_prompt))

\* C4: when model.generate returns None or a zero-length result the request
\* ends with HTTP 500 and writes no output file.
C4_EmptyResultIsError ==
  \A r \in Reqs :
    (Done(r) /\ (req[r].gen.kind = "none"
                   \/ (req[r].gen.kind = "array" /\ Len(req[r].gen.wave) = 0))) =>
      /\ req[r].status = 500
      /\ ~req[r].out.wrote
      /\ WrittenBy(r) = {}

\* C4 for the None result alone, which the code does report.
C4_NoneResultIsError ==
  \A r \in Reqs :
    (Done(r) /\ req[r].gen.kind = "none") =>
      /\ req[r].status = 500
      /\ req[r].detail = NoOutputMsg
      /\ ~req[r].out.wrote

\* C5: no two requests write to the same output path.
C5_OutputWrittenOnce ==
  \A p \in DOMAIN files : Cardinality(files[p].writers) <= 1

\* C9: after soundfile failed librosa is attempted; when it fails too, a
\* failure text holding "Format not recognized" ends in an HTTP 400 whose
\* detail is the unsupported-format message, and any other failure text in
\* an HTTP 400 whose detail carries that text.
C9_DecodeErrorMapping ==
  \A r \in Reqs :
    (Done(r) /\ req[r].upload.read = <<>> /\ req[r].upload.sf.kind = "error") =>
      /\ req[r].upload.librosa.kind # "not_tried"
      /\ req[r].upload.librosa.kind = "error" =>
           /\ req[r].status = 400
           /\ IF Contains(req[r].upload.librosa.msg, Signature)
                THEN req[r].detail = UnsupportedMsg
                ELSE \A i \in 1..Len(req[r].upload.librosa.msg) :
                       Contains(req[r].detail, req[r].upload.librosa.msg[i])

\* The upload side of C2: a request that has returned holds no temporary
\* file of process_audio_file.
UploadTempDeleted == \A r \in Reqs : Done(r) => r \notin tmp

\* C2: once the request has returned, every temporary file it created, by
\* process_audio_file or by process_audio_prompt, is deleted.
C2_TempFilesDeleted ==
  /\ \A r \in Reqs : Done(r) => r \notin tmp
  /\ emb.pc = "done" => emb.created \cap ptmp = {}

\* C10: process_audio_prompt returns None, creating no temporary file, if
\* and only if the waveform is empty or every sample is zero.
C10_SkipsIffSilent ==
  emb.pc # "idle" =>
    /\ emb.result.kind = "none" <=> AllZero(emb.audio_data)
    /\ emb.result.kind = "none" => emb.created = {}

\* C6: every sample of a normalized integer array lies in [-1.0, 1.0].
C6_NormalizedInUnitRange ==
  (narr.pc = "done" /\ narr.in.dtype \in IntDtypes) =>
    \A i \in 1..Len(narr.out.data) :
      /\ -narr.out.data[i].d <= narr.out.data[i].n
      /\ narr.out.data[i].n <= narr.out.data[i].d

====
